---- MODULE Spec2Model ----
(***************************************************************************)
(* Model of the easydns query resolution engine (easydns.go).              *)
(*                                                                         *)
(* A string is a sequence of chunks; the chunks " " (blank) and "." (root  *)
(* separator) are the only ones the code and the record parser look at:    *)
(* "test.com." is <<"test.com", ".">> and "hello world" is                 *)
(* <<"hello", " ", "world">>.  Only the question name is modelled of a     *)
(* question: handleDNSRequest never reads its type or class.               *)
(***************************************************************************)
EXTENDS Integers, Sequences, FiniteSets, TLC

\* Bounds of the model.
MaxHandlers == 2
MaxQuestions == 2
MaxServers == 2

Handlers == 1..MaxHandlers

Blank == " "
Dot == "."

(***************************************************************************)
(* Configuration: Record, Records, ForwardingConfig, Config.               *)
(***************************************************************************)
Record(type, value, priority, ttl) ==
  [Type |-> type, Value |-> value, Priority |-> priority, TTL |-> ttl]

\* The three records of DefaultConfig.
DefaultRecords ==
  (<<"test.com">> :> Record("A", <<"127.0.0.1">>, 0, 600)) @@
  (<<"www.test.com">> :> Record("CNAME", <<"test.com">>, 0, 600)) @@
  (<<"mail.test.com">> :> Record("MX", <<"mail.somehost.com">>, 10, 60))

\* A record table as LoadConfig can produce it from a configuration file:
\* the default records, the remaining kinds of the switch, a kind outside
\* it, and values and priorities the record parser rejects.
Records ==
  DefaultRecords @@
  (<<"v6.test.com">> :> Record("AAAA", <<"::1">>, 0, 0)) @@
  (<<"ns.test.com">> :> Record("NS", <<"ns1.test.com", Dot>>, 0, 300)) @@
  (<<"1.0.0.127.in-addr.arpa">> :> Record("PTR", <<"test.com", Dot>>, 0, 300)) @@
  (<<"txt.test.com">> :> Record("TXT", <<"hello", Blank, "world">>, 0, 30)) @@
  (<<"srv.test.com">> :> Record("SRV", <<"host.test.com">>, 5, 120)) @@
  (<<"soa.test.com">> :> Record("SOA", <<"ns1.test.com", Dot>>, 0, 600)) @@
  (<<"bad.test.com">> :> Record("A", <<"not-an-ip">>, 0, 600)) @@
  (<<"neg.test.com">> :> Record("MX", <<"mail.somehost.com">>, -1, 60)) @@
  (<<"big.test.com">> :> Record("SRV", <<"host.test.com">>, 65536, 60))

\* The upstream endpoints a configuration can list, the two of DefaultConfig first.
ServerPool == <<"8.8.8.8:53", "8.8.4.4:53", "1.1.1.1:53", "9.9.9.9:53">>

ForwardingConfigs ==
  { [Enabled |-> e, Servers |-> SubSeq(ServerPool, 1, n)] :
      e \in BOOLEAN, n \in 0..MaxServers }

Configs == { [Forwarding |-> f, Records |-> Records] : f \in ForwardingConfigs }

(***************************************************************************)
(* Messages.                                                               *)
(***************************************************************************)
\* Question names on the wire are absolute: every key of the table, and a
\* name that is no key.
QNames == { d \o <<Dot>> : d \in DOMAIN Records } \cup { <<"unknown.test.com", Dot>> }

RECURSIVE SeqsUpTo(_, _)
SeqsUpTo(S, n) ==
  IF n = 0 THEN { <<>> }
  ELSE LET shorter == SeqsUpTo(S, n - 1)
       IN  shorter \cup { Append(s, x) : s \in { t \in shorter : Len(t) = n - 1 }, x \in S }

QueryIds == {4660}

Queries ==
  { [Id |-> id, Question |-> qs] : id \in QueryIds, qs \in SeqsUpTo(QNames, MaxQuestions) }

\* dns.Msg{} : the zero message.
ZeroMsg == [Id |-> 0, Response |-> FALSE, Question |-> <<>>, Answer |-> <<>>]

\* A variant that leaves the transaction identifier of the zero message.
SetReplyNoId(m, q) == [m EXCEPT !.Response = TRUE, !.Question = q.Question]

\* msg.SetReply(r)
SetReply(m, q) == [m EXCEPT !.Id = q.Id, !.Response = TRUE, !.Question = q.Question]

RR(name, type, ttl, preference, priority, weight, port, rdata) ==
  [Name |-> name, Rrtype |-> type, Ttl |-> ttl, Preference |-> preference,
   Priority |-> priority, Weight |-> weight, Port |-> port, Rdata |-> rdata]

NoRR == RR(<<>>, "", 0, 0, 0, 0, 0, <<>>)

\* Records an upstream resolver answers with.
UpstreamRR1 == RR(<<"unknown.test.com", Dot>>, "A", 299, 0, 0, 0, 0, << <<"93.184.216.34">> >>)
UpstreamRR2 == RR(<<"unknown.test.com", Dot>>, "A", 299, 0, 0, 0, 0, << <<"93.184.216.35">> >>)

NoResponse == [Rcode |-> "", Answer |-> <<>>]

\* What a completed exchange can return: any status code, any answer section.
Responses ==
  { [Rcode |-> "NOERROR", Answer |-> <<UpstreamRR1, UpstreamRR2>>],
    [Rcode |-> "NOERROR", Answer |-> <<UpstreamRR2>>],
    [Rcode |-> "NXDOMAIN", Answer |-> <<>>] }

(***************************************************************************)
(* Text: strings.TrimSuffix, fmt.Sprintf, and dns.NewRR of the protocol    *)
(* library, which parses the formatted text back into a record.            *)
(***************************************************************************)
\* strings.TrimSuffix(s, "."): one trailing separator is removed, if present.
TrimSuffix(s, suffix) ==
  IF Len(s) >= 1 /\ s[Len(s)] = suffix THEN SubSeq(s, 1, Len(s) - 1) ELSE s

\* The %d verb.
FormatInt(n) == <<ToString(n)>>

\* fmt.Sprintf with verbs separated by single blanks.
RECURSIVE Sprintf(_)
Sprintf(args) ==
  IF Len(args) = 0 THEN <<>>
  ELSE IF Len(args) = 1 THEN args[1]
  ELSE args[1] \o <<Blank>> \o Sprintf(Tail(args))

\* The parser's tokens: maximal runs of chunks without a blank.
RECURSIVE Token(_)
Token(s) ==
  IF s = <<>> \/ Head(s) = Blank THEN <<>> ELSE <<Head(s)>> \o Token(Tail(s))

RECURSIVE Fields(_)
Fields(s) ==
  IF s = <<>> THEN <<>>
  ELSE IF Head(s) = Blank THEN Fields(Tail(s))
  ELSE LET t == Token(s) IN <<t>> \o Fields(SubSeq(s, Len(t) + 1, Len(s)))

\* Address literals the parser accepts for A and for AAAA.
IPv4Literals == {"127.0.0.1", "93.184.216.34", "93.184.216.35"}
IPv6Literals == {"::1"}

\* The integers whose decimal form occurs in a formatted record.
Numbers == { Records[d].Priority : d \in DOMAIN Records } \cup {0}

IsNumber(tok) == Len(tok) = 1 /\ \E n \in Numbers : ToString(n) = tok[1]
Atoi(tok) == CHOOSE n \in Numbers : ToString(n) = tok[1]
\* A 16-bit unsigned field: preference, priority, weight, port.
IsUint16(tok) == IsNumber(tok) /\ Atoi(tok) >= 0 /\ Atoi(tok) < 2^16

\* A host name token, and the parser making it absolute (origin ".").
IsName(tok) == Len(tok) >= 1
ToAbsoluteName(tok) == IF tok[Len(tok)] = Dot THEN tok ELSE tok \o <<Dot>>

ParseError == [err |-> TRUE, rr |-> NoRR]
Parsed(rr) == [err |-> FALSE, rr |-> rr]

\* dns.NewRR(text): owner name, type, then the type's data fields; a missing
\* or surplus field, a bad address, number or name is an error.  The TTL is
\* the parser's default when the text carries none.
NewRR(text) ==
  LET f == Fields(text) IN
  IF Len(f) < 3 \/ ~IsName(f[1]) \/ Len(f[2]) # 1 THEN ParseError
  ELSE
    LET name == ToAbsoluteName(f[1])
        type == f[2][1]
        rd == SubSeq(f, 3, Len(f))
    IN  CASE type = "A" ->
               IF Len(rd) = 1 /\ Len(rd[1]) = 1 /\ rd[1][1] \in IPv4Literals
               THEN Parsed(RR(name, type, 3600, 0, 0, 0, 0, rd)) ELSE ParseError
          [] type = "AAAA" ->
               IF Len(rd) = 1 /\ Len(rd[1]) = 1 /\ rd[1][1] \in IPv6Literals
               THEN Parsed(RR(name, type, 3600, 0, 0, 0, 0, rd)) ELSE ParseError
          [] type \in {"CNAME", "NS", "PTR"} ->
               IF Len(rd) = 1 /\ IsName(rd[1])
               THEN Parsed(RR(name, type, 3600, 0, 0, 0, 0, <<ToAbsoluteName(rd[1])>>))
               ELSE ParseError
          [] type = "TXT" ->
               Parsed(RR(name, type, 3600, 0, 0, 0, 0, rd))
          [] type = "MX" ->
               IF Len(rd) = 2 /\ IsUint16(rd[1]) /\ IsName(rd[2])
               THEN Parsed(RR(name, type, 3600, Atoi(rd[1]), 0, 0, 0, <<ToAbsoluteName(rd[2])>>))
               ELSE ParseError
          [] type = "SRV" ->
               IF Len(rd) = 4 /\ IsUint16(rd[1]) /\ IsUint16(rd[2]) /\ IsUint16(rd[3])
                  /\ IsName(rd[4])
               THEN Parsed(RR(name, type, 3600, 0, Atoi(rd[1]), Atoi(rd[2]), Atoi(rd[3]),
                              <<ToAbsoluteName(rd[4])>>))
               ELSE ParseError
          [] OTHER -> ParseError

(***************************************************************************)
(* The pure parts of handleDNSRequest.                                     *)
(***************************************************************************)
\* records[domain], with domain the question name without its trailing ".".
Domain(qname) == TrimSuffix(qname, Dot)
Found(records, qname) == Domain(qname) \in DOMAIN records

\* The cases of the switch on record.Type that build a record.
SupportedTypes == {"A", "AAAA", "CNAME", "TXT", "NS", "PTR", "MX", "SRV"}

\* A variant that formats every kind with the three-verb layout.
RecordTextPlain(qname, record) == Sprintf(<<qname, <<record.Type>>, record.Value>>)

\* The text handed to dns.NewRR, per case of the switch.
RecordText(qname, record) ==
  CASE record.Type \in {"A", "AAAA", "CNAME", "TXT", "NS", "PTR"} ->
         Sprintf(<<qname, <<record.Type>>, record.Value>>)
    [] record.Type = "MX" ->
         Sprintf(<<qname, <<record.Type>>, FormatInt(record.Priority), record.Value>>)
    [] record.Type = "SRV" ->
         Sprintf(<<qname, <<record.Type>>, FormatInt(record.Priority), FormatInt(0),
                   FormatInt(0), record.Value>>)

\* The answer records one found question adds, and the line it logs.
Synthesize(qname, record) ==
  IF record.Type \notin SupportedTypes
  THEN [answer |-> <<>>, log |-> <<"Unsupported record type">>]
  ELSE LET res == NewRR(RecordText(qname, record))
       IN  IF ~res.err
           THEN [answer |-> << [res.rr EXCEPT !.Ttl = record.TTL] >>, log |-> <<>>]
           ELSE [answer |-> <<>>, log |-> <<"Failed to create RR">>]

(***************************************************************************)
(* State.                                                                  *)
(***************************************************************************)
VARIABLES
  config,    \* the global configuration, loaded by main before the server starts
  net,       \* per handler goroutine, the queries the server has yet to hand it
  pc,        \* per handler: "idle", "loop", "exchange", "log", "done", "panic"
  r,         \* per handler, the query message
  msg,       \* per handler, the reply under construction
  i,         \* per handler, the index of the question the loop is at
  srv,       \* per handler, the index of the upstream server the forwarder is at
  attempts,  \* per handler, the exchanges of the forwarder call in progress
  trace,     \* per handler, one entry per question processed (history)
  written,   \* per handler, the messages given to w.WriteMsg
  logs,      \* per handler, the log lines printed
  crashed    \* the process has terminated on an unrecovered panic

vars == <<config, net, pc, r, msg, i, srv, attempts, trace, written, logs, crashed>>

NoQuery == [Id |-> 0, Question |-> <<>>]

Idle ==
  /\ pc = [h \in Handlers |-> "idle"]
  /\ r = [h \in Handlers |-> NoQuery]
  /\ msg = [h \in Handlers |-> ZeroMsg]
  /\ i = [h \in Handlers |-> 0]
  /\ srv = [h \in Handlers |-> 0]
  /\ attempts = [h \in Handlers |-> <<>>]
  /\ trace = [h \in Handlers |-> <<>>]
  /\ written = [h \in Handlers |-> <<>>]
  /\ logs = [h \in Handlers |-> <<>>]
  /\ crashed = FALSE

\* One client query, any configuration.
Init ==
  /\ config \in Configs
  /\ \E q \in Queries : net = [h \in Handlers |-> IF h = 1 THEN <<q>> ELSE <<>>]
  /\ Idle

(***************************************************************************)
(* requestFromUpsreamServers.                                              *)
(***************************************************************************)
\* The configured list, in the order of the range loop.
UpstreamServers == config.Forwarding.Servers

\* A variant that also requires a NOERROR status.
ExchangeSucceededNoError(err, resp) == err = FALSE /\ resp.Rcode = "NOERROR"

\* if err == nil { return resp, nil }
ExchangeSucceeded(err, resp) == err = FALSE

\* What c.Exchange can produce: a transport error, or some response.
ExchangeOutcomes ==
  { [err |-> TRUE, resp |-> NoResponse] } \cup { [err |-> FALSE, resp |-> p] : p \in Responses }

(***************************************************************************)
(* handleDNSRequest.                                                       *)
(***************************************************************************)
\* A variant that forwards whatever the configuration says.
ForwardingAlways == TRUE

\* if config.Forwarding.Enabled
ForwardingEnabled == config.Forwarding.Enabled

\* The question the loop is at.
Question(h) == r[h].Question[i[h]]

\* The range loop moving to the next question.
NextQuestion(h) == i[h] + 1

\* A variant that leaves the loop.
ContinueBreak(h) == Len(r[h].Question) + 1

\* continue
Continue(h) == NextQuestion(h)

\* A variant that puts the records in front.
AppendAnswerFront(h, rrs) == [msg EXCEPT ![h].Answer = rrs \o @]

\* A variant with one reply shared by all handlers.
AppendAnswerShared(h, rrs) == [g \in Handlers |-> [msg[g] EXCEPT !.Answer = @ \o rrs]]

\* msg.Answer = append(msg.Answer, ...)
AppendAnswer(h, rrs) == [msg EXCEPT ![h].Answer = @ \o rrs]

\* A variant that relays the first record only.
RelayAnswerFirst(resp) == IF resp.Answer = <<>> THEN <<>> ELSE <<Head(resp.Answer)>>

\* upstreamResponse.Answer...
RelayAnswer(resp) == resp.Answer

\* The history entry of a processed question: the exchanges made for it,
\* whether the forwarder returned a response and which, and the length of
\* the answer section once the question is processed.
Entry(att, ok, resp, mark) == [att |-> att, ok |-> ok, resp |-> resp, mark |-> mark]

\* The server hands a query to a handler goroutine, which creates the reply.
Receive(h) ==
  /\ ~crashed
  /\ pc[h] = "idle"
  /\ net[h] # <<>>
  /\ r' = [r EXCEPT ![h] = Head(net[h])]
  /\ net' = [net EXCEPT ![h] = Tail(@)]
  /\ msg' = [msg EXCEPT ![h] = SetReply(ZeroMsg, Head(net[h]))]
  /\ i' = [i EXCEPT ![h] = 1]
  /\ pc' = [pc EXCEPT ![h] = "loop"]
  /\ UNCHANGED <<config, srv, attempts, trace, written, logs, crashed>>

\* A question whose domain is in the table.
AnswerLocal(h) ==
  /\ ~crashed
  /\ pc[h] = "loop"
  /\ i[h] <= Len(r[h].Question)
  /\ Found(config.Records, Question(h))
  /\ LET res == Synthesize(Question(h), config.Records[Domain(Question(h))])
         failed == res.log # <<>>
     IN  /\ msg' = IF failed THEN msg ELSE AppendAnswer(h, res.answer)
         /\ logs' = [logs EXCEPT ![h] = @ \o res.log]
         /\ i' = [i EXCEPT ![h] =
                    IF res.log = <<"Unsupported record type">> THEN Continue(h)
                    ELSE NextQuestion(h)]
         /\ trace' = [trace EXCEPT ![h] = Append(@, Entry(<<>>, FALSE, NoResponse, Len(msg'[h].Answer)))]
  /\ UNCHANGED <<config, net, pc, r, srv, attempts, written, crashed>>

\* A question whose domain is not in the table, forwarding disabled.
SkipMiss(h) ==
  /\ ~crashed
  /\ pc[h] = "loop"
  /\ i[h] <= Len(r[h].Question)
  /\ ~Found(config.Records, Question(h))
  /\ ~ForwardingEnabled
  /\ i' = [i EXCEPT ![h] = NextQuestion(h)]
  /\ trace' = [trace EXCEPT ![h] = Append(@, Entry(<<>>, FALSE, NoResponse, Len(msg[h].Answer)))]
  /\ UNCHANGED <<config, net, pc, r, msg, srv, attempts, written, logs, crashed>>

\* A question whose domain is not in the table, forwarding enabled: the
\* call of requestFromUpsreamServers starts.
Forward(h) ==
  /\ ~crashed
  /\ pc[h] = "loop"
  /\ i[h] <= Len(r[h].Question)
  /\ ~Found(config.Records, Question(h))
  /\ ForwardingEnabled
  /\ srv' = [srv EXCEPT ![h] = 1]
  /\ attempts' = [attempts EXCEPT ![h] = <<>>]
  /\ pc' = [pc EXCEPT ![h] = "exchange"]
  /\ UNCHANGED <<config, net, r, msg, i, trace, written, logs, crashed>>

\* One c.Exchange(r, server): on a transport error the loop moves to the
\* next server; otherwise the call returns and the answer is relayed.
Exchange(h) ==
  /\ ~crashed
  /\ pc[h] = "exchange"
  /\ srv[h] <= Len(UpstreamServers)
  /\ \E out \in ExchangeOutcomes :
       LET att == Append(attempts[h],
                         [server |-> UpstreamServers[srv[h]], err |-> out.err, resp |-> out.resp])
       IN  IF ExchangeSucceeded(out.err, out.resp)
           THEN /\ msg' = AppendAnswer(h, RelayAnswer(out.resp))
                /\ trace' = [trace EXCEPT ![h] =
                               Append(@, Entry(att, TRUE, out.resp, Len(msg'[h].Answer)))]
                /\ attempts' = [attempts EXCEPT ![h] = <<>>]
                /\ srv' = [srv EXCEPT ![h] = 0]
                /\ i' = [i EXCEPT ![h] = NextQuestion(h)]
                /\ pc' = [pc EXCEPT ![h] = "loop"]
           ELSE /\ attempts' = [attempts EXCEPT ![h] = att]
                /\ srv' = [srv EXCEPT ![h] = @ + 1]
                /\ UNCHANGED <<msg, trace, i, pc>>
  /\ UNCHANGED <<config, net, r, written, logs, crashed>>

\* A variant that remembers the failure: the servers that failed are dropped
\* from the configured list.
ForwardFailDropServers(h) ==
  /\ ~crashed
  /\ pc[h] = "exchange"
  /\ srv[h] > Len(UpstreamServers)
  /\ config' = [config EXCEPT !.Forwarding.Servers = <<>>]
  /\ logs' = [logs EXCEPT ![h] = Append(@, "failed to get response from upstream servers")]
  /\ trace' = [trace EXCEPT ![h] =
                 Append(@, Entry(attempts[h], FALSE, NoResponse, Len(msg[h].Answer)))]
  /\ attempts' = [attempts EXCEPT ![h] = <<>>]
  /\ srv' = [srv EXCEPT ![h] = 0]
  /\ i' = [i EXCEPT ![h] = Continue(h)]
  /\ pc' = [pc EXCEPT ![h] = "loop"]
  /\ UNCHANGED <<net, r, msg, written, crashed>>

\* The list is exhausted: the call returns the error, the handler logs it
\* and continues with the next question.
ForwardFail(h) ==
  /\ ~crashed
  /\ pc[h] = "exchange"
  /\ srv[h] > Len(UpstreamServers)
  /\ logs' = [logs EXCEPT ![h] = Append(@, "failed to get response from upstream servers")]
  /\ trace' = [trace EXCEPT ![h] =
                 Append(@, Entry(attempts[h], FALSE, NoResponse, Len(msg[h].Answer)))]
  /\ attempts' = [attempts EXCEPT ![h] = <<>>]
  /\ srv' = [srv EXCEPT ![h] = 0]
  /\ i' = [i EXCEPT ![h] = Continue(h)]
  /\ pc' = [pc EXCEPT ![h] = "loop"]
  /\ UNCHANGED <<config, net, r, msg, written, crashed>>

\* w.WriteMsg(&msg), after the loop.
WriteMsg(h) ==
  /\ ~crashed
  /\ pc[h] = "loop"
  /\ i[h] > Len(r[h].Question)
  /\ written' = [written EXCEPT ![h] = Append(@, msg[h])]
  /\ pc' = [pc EXCEPT ![h] = "log"]
  /\ UNCHANGED <<config, net, r, msg, i, srv, attempts, trace, logs, crashed>>

\* log.Printf("query: %s from: %s", r.Question[0].Name, ...): indexing an
\* empty question section panics, and no handler recovers.
LogQuery(h) ==
  /\ ~crashed
  /\ pc[h] = "log"
  /\ IF Len(r[h].Question) = 0
     THEN /\ pc' = [pc EXCEPT ![h] = "panic"]
          /\ crashed' = TRUE
          /\ UNCHANGED logs
     ELSE /\ pc' = [pc EXCEPT ![h] = "done"]
          /\ logs' = [logs EXCEPT ![h] = Append(@, "query")]
          /\ UNCHANGED crashed
  /\ UNCHANGED <<config, net, r, msg, i, srv, attempts, trace, written>>

Next ==
  \E h \in Handlers :
    \/ Receive(h)
    \/ AnswerLocal(h)
    \/ SkipMiss(h)
    \/ Forward(h)
    \/ Exchange(h)
    \/ ForwardFail(h)
    \/ WriteMsg(h)
    \/ LogQuery(h)

Spec == Init /\ [][Next]_vars

\* Concurrent queries: every handler goroutine is handed one query; the
\* configuration forwards, or not, to the longest server list.
ConcQueries ==
  { [Id |-> 4660, Question |-> qs] :
      qs \in { <<>>, << <<"test.com", Dot>> >>, << <<"unknown.test.com", Dot>> >>,
               << <<"test.com", Dot>>, <<"unknown.test.com", Dot>> >> } }

InitConc ==
  /\ config \in { c \in Configs : Len(c.Forwarding.Servers) = MaxServers }
  /\ net \in [Handlers -> { <<q>> : q \in ConcQueries }]
  /\ Idle

SpecConc == InitConc /\ [][Next]_vars

(***************************************************************************)
(* Properties.                                                             *)
(***************************************************************************)
Processed(h) == 1..Len(trace[h])

QuestionAt(h, k) == r[h].Question[k]
RecordAt(h, k) == config.Records[Domain(QuestionAt(h, k))]
Hit(h, k) == Domain(QuestionAt(h, k)) \in DOMAIN config.Records

\* The records the k-th question added to the answer section.
Contribution(h, k) ==
  SubSeq(msg[h].Answer, (IF k = 1 THEN 0 ELSE trace[h][k - 1].mark) + 1, trace[h][k].mark)

\* The value is one the record constructor accepts for the kind.
Buildable(rec) ==
  LET toks == Fields(rec.Value) IN
  CASE rec.Type = "A" -> Len(toks) = 1 /\ Len(toks[1]) = 1 /\ toks[1][1] \in IPv4Literals
    [] rec.Type = "AAAA" -> Len(toks) = 1 /\ Len(toks[1]) = 1 /\ toks[1][1] \in IPv6Literals
    [] rec.Type \in {"CNAME", "NS", "PTR"} -> Len(toks) = 1
    [] rec.Type = "TXT" -> Len(toks) >= 1
    [] rec.Type \in {"MX", "SRV"} ->
         Len(toks) = 1 /\ rec.Priority >= 0 /\ rec.Priority <= 65535
    [] OTHER -> FALSE

\* The value as the record constructor reads it: an address as it stands, a
\* host name absolute, a text split at blanks.
ReadValue(rec) ==
  IF rec.Type = "TXT" THEN Fields(rec.Value)
  ELSE IF rec.Type \in {"A", "AAAA"} THEN <<rec.Value>>
  ELSE <<ToAbsoluteName(rec.Value)>>

\* The per-kind mapping of a descriptor to the fields of the answer record.
FollowsMapping(rr, qname, rec) ==
  /\ rr.Name = qname
  /\ rr.Rrtype = rec.Type
  /\ rr.Rdata = ReadValue(rec)
  /\ rec.Type = "MX" => rr.Preference = rec.Priority
  /\ rec.Type = "SRV" => rr.Priority = rec.Priority /\ rr.Weight = 0 /\ rr.Port = 0

\* The result of the k-th question on its own: the synthesized record for a
\* hit, the upstream answer for a forwarded miss, nothing otherwise.
Result(h, k) ==
  IF Hit(h, k) THEN Synthesize(QuestionAt(h, k), RecordAt(h, k)).answer
  ELSE IF trace[h][k].ok THEN trace[h][k].resp.Answer
  ELSE <<>>

RECURSIVE ConcatResults(_, _)
ConcatResults(h, k) == IF k = 0 THEN <<>> ELSE ConcatResults(h, k - 1) \o Result(h, k)

\* C1 as stated: every question whose stripped name is a key of the table
\* and whose descriptor has a supported kind gets exactly one answer record,
\* named as the question, with data following the per-kind mapping.
C1_Original ==
  \A h \in Handlers : \A k \in Processed(h) :
    (Hit(h, k) /\ RecordAt(h, k).Type \in SupportedTypes)
      => /\ Len(Contribution(h, k)) = 1
         /\ FollowsMapping(Contribution(h, k)[1], QuestionAt(h, k), RecordAt(h, k))

\* C1 amended: every question whose stripped name is a key of the table,
\* whose descriptor has a supported kind and whose value the record
\* constructor accepts for that kind gets exactly one answer record, named as
\* the question, with data following the per-kind mapping.
C1_HitYieldsOneMappedRecord ==
  \A h \in Handlers : \A k \in Processed(h) :
    (Hit(h, k) /\ RecordAt(h, k).Type \in SupportedTypes /\ Buildable(RecordAt(h, k)))
      => /\ Len(Contribution(h, k)) = 1
         /\ FollowsMapping(Contribution(h, k)[1], QuestionAt(h, k), RecordAt(h, k))

\* A handler has answered questions for an MX and for an SRV descriptor.
C1_Witness ==
  \E h \in Handlers :
    /\ Len(trace[h]) = 2
    /\ Hit(h, 1) /\ RecordAt(h, 1).Type = "MX" /\ Len(Contribution(h, 1)) = 1
    /\ Hit(h, 2) /\ RecordAt(h, 2).Type = "SRV" /\ Len(Contribution(h, 2)) = 1
    /\ Contribution(h, 2)[1].Priority = 5

\* C2: the answer section is the concatenation, in question order, of the
\* results of the questions processed so far, and so is the reply written.
C2_AnswersInQuestionOrder ==
  \A h \in Handlers :
    /\ msg[h].Answer = ConcatResults(h, Len(trace[h]))
    /\ \A k \in Processed(h) : k > 1 => trace[h][k - 1].mark <= trace[h][k].mark
    /\ written[h] # <<>> => written[h][1].Answer = ConcatResults(h, Len(r[h].Question))

\* A reply was written for a forwarded miss followed by a hit, with the two
\* upstream records before the synthesized one.
C2_Witness ==
  \E h \in Handlers :
    /\ written[h] # <<>>
    /\ Len(r[h].Question) = 2
    /\ ~Hit(h, 1) /\ Len(Contribution(h, 1)) = 2
    /\ Hit(h, 2) /\ Len(Contribution(h, 2)) = 1

\* The exchanges of one call of the forwarder, as far as they went.
InOrder(att) ==
  /\ Len(att) <= Len(config.Forwarding.Servers)
  /\ \A n \in 1..Len(att) : att[n].server = config.Forwarding.Servers[n]

\* C3: a forwarder call contacts the servers in configured order, each list
\* entry at most once; it returns the response of the first exchange without
\* a transport error, whatever its status code, and contacts no server after
\* it; it fails exactly when every server of the list failed.
C3_FirstReachableUpstreamWins ==
  \A h \in Handlers :
    /\ InOrder(attempts[h])
    /\ \A n \in 1..Len(attempts[h]) : attempts[h][n].err
    /\ \A k \in Processed(h) :
         LET e == trace[h][k] IN
         /\ InOrder(e.att)
         /\ \A n \in 1..(Len(e.att) - 1) : e.att[n].err
         /\ e.ok => /\ Len(e.att) >= 1
                    /\ ~e.att[Len(e.att)].err
                    /\ e.resp = e.att[Len(e.att)].resp
         /\ (~Hit(h, k) /\ config.Forwarding.Enabled) =>
              (~e.ok <=> /\ Len(e.att) = Len(config.Forwarding.Servers)
                         /\ \A n \in 1..Len(e.att) : e.att[n].err)

\* With two servers, the first failed and the second returned NXDOMAIN; for
\* another question both failed.
C3_Witness ==
  \E h \in Handlers :
    /\ Len(trace[h]) = 2
    /\ Len(trace[h][1].att) = 2
    /\ trace[h][1].att[1].err /\ ~trace[h][1].att[2].err
    /\ trace[h][1].ok /\ trace[h][1].resp.Rcode = "NXDOMAIN"
    /\ Len(trace[h][2].att) = 2 /\ ~trace[h][2].ok

\* C4: with forwarding disabled no upstream server is contacted, and a
\* question whose stripped name is no key of the table adds no answer record.
C4_DisabledMissAddsNothing ==
  ~config.Forwarding.Enabled =>
    \A h \in Handlers :
      /\ attempts[h] = <<>>
      /\ pc[h] # "exchange"
      /\ \A k \in Processed(h) :
           /\ trace[h][k].att = <<>>
           /\ ~Hit(h, k) => Contribution(h, k) = <<>>

\* Forwarding is disabled, servers are configured, and a query with a miss
\* has been answered.
C4_Witness ==
  /\ ~config.Forwarding.Enabled
  /\ config.Forwarding.Servers # <<>>
  /\ \E h \in Handlers :
       /\ pc[h] = "done"
       /\ \E k \in Processed(h) : ~Hit(h, k)

\* C5: with forwarding enabled, a question whose stripped name is no key of
\* the table and for which some upstream exchange completed adds exactly the
\* answer records of that response, in the upstream's order.
C5_ForwardedAnswerVerbatim ==
  \A h \in Handlers : \A k \in Processed(h) :
    LET e == trace[h][k] IN
    (~Hit(h, k) /\ config.Forwarding.Enabled /\ \E n \in 1..Len(e.att) : ~e.att[n].err)
      => \E n \in 1..Len(e.att) :
           /\ ~e.att[n].err
           /\ Contribution(h, k) = e.att[n].resp.Answer

\* A miss was forwarded and the two records of the response were relayed
\* after the record of an earlier hit.
C5_Witness ==
  \E h \in Handlers :
    /\ Len(trace[h]) = 2
    /\ Hit(h, 1) /\ Len(Contribution(h, 1)) = 1
    /\ ~Hit(h, 2) /\ trace[h][2].ok
    /\ Contribution(h, 2) = <<UpstreamRR1, UpstreamRR2>>

\* The k-th question failed: unsupported kind, value the record constructor
\* rejects, or every upstream failing.
Failed(h, k) ==
  IF Hit(h, k)
  THEN RecordAt(h, k).Type \notin SupportedTypes \/ ~Buildable(RecordAt(h, k))
  ELSE config.Forwarding.Enabled /\ ~trace[h][k].ok

\* C6: a failed question adds no answer record and does not abort the query:
\* the questions after it get the result they have on their own, and when the
\* reply is written every question has been processed.
C6_FailureIsNotFatal ==
  \A h \in Handlers :
    /\ \A k \in Processed(h) :
         Failed(h, k) =>
           /\ Contribution(h, k) = <<>>
           /\ \A j \in Processed(h) : j > k => Contribution(h, j) = Result(h, j)
    /\ written[h] # <<>> => Len(trace[h]) = Len(r[h].Question)
    /\ (pc[h] = "loop" /\ \E k \in Processed(h) : Failed(h, k)) => i[h] = Len(trace[h]) + 1

\* A reply was written for a query whose first question failed and whose
\* second question was answered.
C6_Witness ==
  \E h \in Handlers :
    /\ written[h] # <<>>
    /\ Len(trace[h]) = 2
    /\ Failed(h, 1)
    /\ ~Failed(h, 2) /\ Len(Contribution(h, 2)) >= 1

\* C7: a handler writes at most one reply, only after every question has
\* been processed, and has written exactly one once it is past the write; the
\* reply carries the query's transaction identifier and the reply mark.
C7_OneReplyWithQueryId ==
  \A h \in Handlers :
    /\ Len(written[h]) <= 1
    /\ pc[h] \in {"log", "done", "panic"} <=> Len(written[h]) = 1
    /\ written[h] # <<>> =>
         /\ i[h] > Len(r[h].Question)
         /\ Len(trace[h]) = Len(r[h].Question)
         /\ written[h][1].Id = r[h].Id
         /\ written[h][1].Response
         /\ written[h][1].Question = r[h].Question

\* A miss with forwarding disabled was replied to with an empty answer section.
C7_Witness ==
  \E h \in Handlers :
    /\ ~config.Forwarding.Enabled
    /\ pc[h] = "done"
    /\ Len(r[h].Question) = 1 /\ ~Hit(h, 1)
    /\ written[h][1].Answer = <<>>
    /\ written[h][1].Id = r[h].Id /\ r[h].Id # 0

\* Two handlers were given the same questions.
SameQuery(g, h) == g # h /\ written[g] # <<>> /\ written[h] # <<>> /\ r[g].Question = r[h].Question

\* The forwarder returned the same to both, question by question.
SameUpstreamResults(g, h) ==
  \A k \in 1..Len(r[g].Question) :
    trace[g][k].ok = trace[h][k].ok /\ trace[g][k].resp = trace[h][k].resp

\* C8 as stated: two runs of the same query against an unchanged table and
\* configuration reply with the same records in the same order.
C8_Original ==
  \A g, h \in Handlers : SameQuery(g, h) => written[g][1].Answer = written[h][1].Answer

\* C8 amended: two runs of the same query against an unchanged table and
\* configuration, in which the forwarder returned the same result for every
\* forwarded question, reply with the same records in the same order.
C8_SameQuerySameAnswers ==
  \A g, h \in Handlers :
    (SameQuery(g, h) /\ SameUpstreamResults(g, h)) => written[g][1].Answer = written[h][1].Answer

\* Two handlers replied to the same hit-and-miss query, the miss forwarded
\* with the same response.
C8_Witness ==
  \E g, h \in Handlers :
    /\ SameQuery(g, h) /\ SameUpstreamResults(g, h)
    /\ Len(r[g].Question) = 2
    /\ trace[g][2].ok
    /\ Len(written[g][1].Answer) = 3

\* The reply a query gets when handled alone, given what the forwarder
\* returned for its questions.
AloneReply(h) ==
  [Id |-> r[h].Id, Response |-> TRUE, Question |-> r[h].Question,
   Answer |-> ConcatResults(h, Len(r[h].Question))]

\* C9: handling a query never modifies the table or the forwarding
\* configuration, and under every interleaving of concurrent handlers each
\* reply is the reply its query gets when handled alone.
C9_HandlersShareNoMutableState ==
  /\ [][config' = config]_vars
  /\ [](\A h \in Handlers : written[h] # <<>> => written[h][1] = AloneReply(h))

\* Two handlers ran interleaved: one replied with a forwarded answer while the
\* other, whose upstreams all failed, was still in its loop.
C9_Witness ==
  \E g, h \in Handlers :
    /\ g # h
    /\ written[g] # <<>> /\ Len(written[g][1].Answer) >= 2
    /\ pc[h] = "loop" /\ Len(trace[h]) >= 1
    /\ ~Hit(h, Len(trace[h])) /\ ~trace[h][Len(trace[h])].ok
    /\ Len(trace[h][Len(trace[h])].att) >= 1

\* C10: every query, also one with an empty question section, is handled
\* without a fault: no handler panics, and a handler past the write ends by
\* logging the first question's name.
C10_NoFault ==
  /\ ~crashed
  /\ \A h \in Handlers : pc[h] # "panic"

====
